---- MODULE Spec2Model ----
(***************************************************************************)
(* A model of standupbot: the energy-based segmenter of AudioCapture, the  *)
(* keyword matcher and history of Analyzer, the two speakers, and the      *)
(* pipeline / key handlers of StandupBotApp.                               *)
(*                                                                         *)
(* Amplitudes are integers in units of 0.001 (so 0.01 is 10, 0.02 is 20);  *)
(* times are integers in seconds of the monotonic clock.                   *)
(***************************************************************************)
EXTENDS Integers, Sequences, FiniteSets, TLC

VARIABLES
    \* AudioCapture
    silence_threshold,  \* utterances(): int(silence_duration_s * sample_rate)
    buffer,             \* utterances(): list of chunks being accumulated
    silence_samples,    \* utterances(): trailing quiet samples
    consumed,           \* history: every chunk the segmenter took, in order
    emitted,            \* history: every utterance yielded, with the position it was yielded at
    \* Analyzer
    now,                \* time.monotonic()
    last_fired,         \* Analyzer._last_fired: trigger name -> time
    transcript_history, \* Analyzer._transcript_history
    kw_call,            \* history: the latest call on the analyzer and what it returned
    fired_log,          \* history: per trigger, the latest two times check_keywords returned it
    recorded,           \* history: every text handed to add_to_history, in order
    \* StandupBotApp, the speaker and the capture thread
    pc,                 \* where the pipeline worker and the on_key handler are
    engine,             \* TTSConfig.engine: "say" or "kokoro"
    paused_event,       \* the Event _paused: TRUE = set = running, FALSE = paused
    speaking,           \* the Event _speaking: TRUE = set
    triggers_enabled,   \* _triggers_enabled
    stream,             \* AudioCapture._stream is open and started
    queue,              \* AudioCapture._queue
    cb,                 \* the chunk _audio_callback holds between its test and its put
    next_id,            \* history: number of the next chunk the driver delivers
    utterance,          \* the utterance the pipeline is waiting with or transcribing
    result,             \* per task, the TriggerMatch it is responding to
    heard               \* history: the latest text transcribe() returned, and whether check_keywords saw it

vadVars == <<silence_threshold, buffer, silence_samples, consumed, emitted>>
analyzerVars == <<now, last_fired, transcript_history, kw_call, fired_log, recorded>>
appVars == <<pc, engine, paused_event, speaking, triggers_enabled, stream, queue,
             cb, next_id, utterance, result, heard>>
vars == <<vadVars, analyzerVars, appVars>>

----------------------------------------------------------------------------
(* Bounds of the model *)

\* Number of chunks fed to the segmenter in SpecVAD.
MaxFrames == 6

\* Largest value of the monotonic clock in SpecAnalyzer.
MaxTime == 5

\* Longest text handed to check_keywords in SpecAnalyzer.
MaxTextLen == 2

\* Number of chunks the driver delivers in Spec.
MaxChunks == 4

\* Largest value of the monotonic clock in Spec.
MaxClock == 2

\* Number of texts recorded in SpecHistory.
MaxRecords == 25

\* How many of the texts recorded in SpecHistory may be the rare one.
MaxRare == 2

----------------------------------------------------------------------------
(* Configuration (config.py) *)

\* VADConfig.energy_threshold, 0.01 in units of 0.001
EnergyThreshold == 10

\* (silence_duration_s, sample_rate) pairs; the duration is a fraction num/den.
\* 3/2 is the default silence_duration_s of 1.5.
VadConfigs ==
    { [num |-> n, den |-> d, sample_rate |-> r] :
        n \in {2, 3, 4}, d \in {2}, r \in {2, 3, 4} }

\* The sample blocks the driver can deliver.  <<20,20>> has RMS 0.02,
\* <<1,1>> has RMS 0.001, <<14,2>> has RMS exactly 0.01 (sum of squares 200),
\* <<13,2>> has RMS below 0.01 although one sample is above it.
ChunkKinds == { <<20, 20>>, <<1, 1>>, <<14, 2>>, <<13, 2>>, <<1>> }

\* AppConfig.triggers, in configured order.  A text and a keyword are
\* sequences of characters.
Triggers ==
    << [name |-> "standup", keywords |-> << <<"A", "b">>, <<"a">> >>,
        cooldown_seconds |-> 2],
       [name |-> "status", keywords |-> << <<"b", "a">>, <<"B">> >>,
        cooldown_seconds |-> 1] >>

TriggerIds == 1..Len(Triggers)

\* The length _transcript_history is cut back to.
HistoryCap == 20

\* The configuration of the whole application in Spec: silence_duration_s
\* 1.0 at a sample rate of 2, chunks of two samples.
MainVadConfig == [num |-> 2, den |-> 2, sample_rate |-> 2]

MainChunkKinds == { <<20, 20>>, <<1, 1>> }

\* What the transcriber can return: nothing, blanks around two characters,
\* a text with keywords of both triggers, a text with a keyword of the
\* second trigger only, a text with no keyword.
MainTexts ==
    { <<>>,
      <<" ", "a", "b", " ">>,
      <<"A", "b", "b">>,
      <<"b", "B", "b">>,
      <<"x", "y", "z">> }

Alphabet == {"a", "B"}

----------------------------------------------------------------------------
(* AudioCapture.utterances: the segmenter *)

RECURSIVE SumSq(_)
SumSq(s) == IF s = <<>> THEN 0 ELSE Head(s) * Head(s) + SumSq(Tail(s))

\* energy >= threshold, where energy = sqrt(mean(chunk ** 2)):
\* for a non-empty chunk and a threshold >= 0 that is sum(x^2) >= thr^2 * n.
\* The mean of an empty chunk is NaN and compares false.
EnergyAtLeast(samples, thr) ==
    Len(samples) > 0 /\ SumSq(samples) >= thr * thr * Len(samples)

\* silence_threshold = int(self._silence_duration * self._sample_rate)
SilenceThresholdOf(cfg) == (cfg.num * cfg.sample_rate) \div cfg.den

\* The test of line 85 that ends an utterance.
SilenceStrictlyOver(silence, threshold) == silence > threshold

SilenceReached(silence, threshold) == silence >= threshold

\* The body of the while loop after a chunk was taken from the queue
\* (lines 76-89).  out is <<>> when nothing is yielded, else <<utterance>>;
\* an utterance is kept as the sequence of its chunks, in buffer order.
AcceptKeepsBuffer(buf, silence, threshold, chunk) ==
    IF EnergyAtLeast(chunk.samples, EnergyThreshold)
    THEN [buffer |-> Append(buf, chunk), silence_samples |-> 0, out |-> <<>>]
    ELSE IF buf # <<>>
    THEN LET s == silence + Len(chunk.samples)
             b == Append(buf, chunk)
         IN  IF SilenceReached(s, threshold)
             THEN [buffer |-> b, silence_samples |-> 0, out |-> <<b>>]
             ELSE [buffer |-> b, silence_samples |-> s, out |-> <<>>]
    ELSE [buffer |-> buf, silence_samples |-> silence, out |-> <<>>]

AcceptSplitsOnQuiet(buf, silence, threshold, chunk) ==
    IF EnergyAtLeast(chunk.samples, EnergyThreshold)
    THEN [buffer |-> IF silence > 0 THEN <<chunk>> ELSE Append(buf, chunk),
          silence_samples |-> 0, out |-> <<>>]
    ELSE IF buf # <<>>
    THEN LET s == silence + Len(chunk.samples)
             b == Append(buf, chunk)
         IN  IF SilenceReached(s, threshold)
             THEN [buffer |-> <<>>, silence_samples |-> 0, out |-> <<b>>]
             ELSE [buffer |-> b, silence_samples |-> s, out |-> <<>>]
    ELSE [buffer |-> buf, silence_samples |-> silence, out |-> <<>>]

Accept(buf, silence, threshold, chunk) ==
    IF EnergyAtLeast(chunk.samples, EnergyThreshold)
    THEN [buffer |-> Append(buf, chunk), silence_samples |-> 0, out |-> <<>>]
    ELSE IF buf # <<>>
    THEN LET s == silence + Len(chunk.samples)
             b == Append(buf, chunk)
         IN  IF SilenceReached(s, threshold)
             THEN [buffer |-> <<>>, silence_samples |-> 0, out |-> <<b>>]
             ELSE [buffer |-> b, silence_samples |-> s, out |-> <<>>]
    ELSE [buffer |-> buf, silence_samples |-> silence, out |-> <<>>]

----------------------------------------------------------------------------
(* Analyzer: keyword matching, cooldowns, force-invocation *)

\* str.lower() on the characters of the alphabet.
LowerChar(c) == CASE c = "A" -> "a" [] c = "B" -> "b" [] OTHER -> c

Lower(t) == [i \in 1..Len(t) |-> LowerChar(t[i])]

\* k in t (substring test); the empty string is in every string.
Contains(t, k) ==
    \E i \in 0..(Len(t) - Len(k)) : SubSeq(t, i + 1, i + Len(k)) = k

\* dict.get(name, default)
Get(d, name, default) == IF name \in DOMAIN d THEN d[name] ELSE default

\* d[name] = value
Put(d, name, value) ==
    [n \in DOMAIN d \cup {name} |-> IF n = name THEN value ELSE d[n]]

NoMatch == <<>>

\* The cooldown test of lines 50-52: TRUE when the trigger is skipped.
CooldownSkipsAtExpiry(trigger, t, lf) ==
    t - Get(lf, trigger.name, 0) <= trigger.cooldown_seconds

CooldownSkips(trigger, t, lf) ==
    t - Get(lf, trigger.name, 0) < trigger.cooldown_seconds

\* The inner loop of lines 54-57 from keyword k on: the index of the first
\* keyword found in the text, 0 when there is none.
RECURSIVE ScanKeywords(_, _, _)
ScanKeywords(keywords, k, text_lower) ==
    IF k > Len(keywords) THEN 0
    ELSE IF Contains(text_lower, Lower(keywords[k])) THEN k
    ELSE ScanKeywords(keywords, k + 1, text_lower)

\* What a match does to _last_fired (line 56).
LastFiredUntouched(lf, name, t) == lf

LastFiredOnMatch(lf, name, t) == Put(lf, name, t)

\* The outer loop of lines 49-59 from trigger i on.
RECURSIVE ScanTriggers(_, _, _, _)
ScanTriggers(i, text_lower, t, lf) ==
    IF i > Len(Triggers) THEN [match |-> NoMatch, last_fired |-> lf]
    ELSE IF CooldownSkips(Triggers[i], t, lf)
         THEN ScanTriggers(i + 1, text_lower, t, lf)
         ELSE LET k == ScanKeywords(Triggers[i].keywords, 1, text_lower)
              IN  IF k # 0
                  THEN [match |-> <<[trigger |-> i,
                                     keyword |-> Triggers[i].keywords[k]]>>,
                        last_fired |-> LastFiredOnMatch(lf, Triggers[i].name, t)]
                  ELSE ScanTriggers(i + 1, text_lower, t, lf)

\* Analyzer.check_keywords at clock value t: the match (or NoMatch) and the
\* new _last_fired.
check_keywords_case_sensitive(text, t, lf) == ScanTriggers(1, text, t, lf)

check_keywords(text, t, lf) == ScanTriggers(1, Lower(text), t, lf)

\* Analyzer.force_trigger up to the call of generate_response: the latest
\* history entry it builds the prompt from, and _last_fired as it leaves it.
force_trigger_restarts_cooldown(i, history, t, lf) ==
    [trigger |-> i, matched_keyword |-> "(manual)",
     latest |-> IF history # <<>> THEN history[Len(history)] ELSE <<>>,
     last_fired |-> Put(lf, Triggers[i].name, t)]

force_trigger(i, history, t, lf) ==
    [trigger |-> i, matched_keyword |-> "(manual)",
     latest |-> IF history # <<>> THEN history[Len(history)] ELSE <<>>,
     last_fired |-> lf]

----------------------------------------------------------------------------
(* StandupBotApp: state after __init__ *)

Procs == {"pipeline", "force"}

NoResult == <<>>

\* No transcription has returned yet.
NotHeard == <<>>

\* StandupBotApp.__init__ (lines 60-66) and AudioCapture.__init__; the
\* engine is not chosen here.
AppIdle ==
    /\ pc = [p \in Procs |-> IF p = "pipeline" THEN "start" ELSE "idle"]
    /\ engine = "say"
    /\ paused_event = TRUE
    /\ speaking = FALSE
    /\ triggers_enabled = FALSE
    /\ stream = FALSE
    /\ queue = <<>>
    /\ cb = <<>>
    /\ next_id = 1
    /\ utterance = <<>>
    /\ result = [p \in Procs |-> NoResult]
    /\ heard = NotHeard

----------------------------------------------------------------------------
(* The analyzer on its own: any sequence of calls at any clock values *)

RECURSIVE SeqsUpTo(_, _)
SeqsUpTo(S, n) ==
    IF n = 0 THEN {<<>>}
    ELSE LET shorter == SeqsUpTo(S, n - 1)
         IN  shorter \cup { Append(t, c) : t \in shorter, c \in S }

KwTexts == SeqsUpTo(Alphabet, MaxTextLen)

NoCall == [kind |-> "none", text |-> <<>>, time |-> 0, trigger |-> 0,
           before |-> <<>>, match |-> NoMatch,
           prev_kind |-> "none", prev_trigger |-> 0, prev_before |-> <<>>]

\* The analyzer as Analyzer.__init__ leaves it, no call made yet.
AnalyzerIdle ==
    /\ now = 0
    /\ last_fired = <<>>
    /\ transcript_history = <<>>
    /\ kw_call = NoCall
    /\ fired_log = [i \in TriggerIds |-> <<>>]
    /\ recorded = <<>>

\* The reference point of time.monotonic() is undefined: the clock starts
\* at any value.
InitAnalyzer ==
    /\ now \in 0..MaxTime
    /\ last_fired = <<>>
    /\ transcript_history = <<>>
    /\ kw_call = NoCall
    /\ fired_log = [i \in TriggerIds |-> <<>>]
    /\ recorded = <<>>
    /\ silence_threshold = 0
    /\ buffer = <<>>
    /\ silence_samples = 0
    /\ consumed = <<>>
    /\ emitted = <<>>
    /\ AppIdle

\* The monotonic clock advances between calls.
Tick ==
    /\ now < MaxTime
    /\ now' = now + 1
    /\ UNCHANGED <<last_fired, transcript_history, kw_call, fired_log, recorded,
                   vadVars, appVars>>

\* A call of check_keywords on some text.
KwCheck ==
    /\ \E text \in KwTexts :
         LET r == check_keywords(text, now, last_fired)
         IN  /\ last_fired' = r.last_fired
             /\ kw_call' = [kind |-> "check", text |-> text, time |-> now,
                            trigger |-> 0, before |-> last_fired,
                            match |-> r.match,
                            prev_kind |-> kw_call.kind,
                            prev_trigger |-> kw_call.trigger,
                            prev_before |-> kw_call.before]
             /\ fired_log' = IF r.match = NoMatch THEN fired_log
                             ELSE [fired_log EXCEPT ![r.match[1].trigger] =
                                       IF @ = <<>> THEN <<now>> ELSE <<@[Len(@)], now>>]
    /\ UNCHANGED <<now, transcript_history, recorded, vadVars, appVars>>

\* A call of force_trigger for a configured trigger.
KwForce ==
    /\ \E i \in TriggerIds :
         LET r == force_trigger(i, transcript_history, now, last_fired)
         IN  /\ last_fired' = r.last_fired
             /\ kw_call' = [kind |-> "force", text |-> r.latest, time |-> now,
                            trigger |-> i, before |-> last_fired,
                            match |-> NoMatch,
                            prev_kind |-> kw_call.kind,
                            prev_trigger |-> kw_call.trigger,
                            prev_before |-> kw_call.before]
    /\ UNCHANGED <<now, transcript_history, fired_log, recorded, vadVars, appVars>>

NextAnalyzer == Tick \/ KwCheck \/ KwForce

SpecAnalyzer == InitAnalyzer /\ [][NextAnalyzer]_vars

----------------------------------------------------------------------------
(* The segmenter on its own: any chunk sequence, any configuration *)

InitVAD ==
    /\ \E cfg \in VadConfigs : silence_threshold = SilenceThresholdOf(cfg)
    /\ buffer = <<>>
    /\ silence_samples = 0
    /\ consumed = <<>>
    /\ emitted = <<>>
    /\ AnalyzerIdle
    /\ AppIdle

\* One turn of the while loop of utterances() on the next chunk.
VadStep ==
    /\ Len(consumed) < MaxFrames
    /\ \E k \in ChunkKinds :
         LET chunk == [id |-> Len(consumed) + 1, samples |-> k, gated |-> FALSE]
             r == Accept(buffer, silence_samples, silence_threshold, chunk)
         IN  /\ buffer' = r.buffer
             /\ silence_samples' = r.silence_samples
             /\ consumed' = Append(consumed, chunk)
             /\ emitted' = IF r.out = <<>> THEN emitted
                           ELSE Append(emitted, [at |-> Len(consumed) + 1,
                                                 frames |-> r.out[1]])
    /\ UNCHANGED <<silence_threshold, analyzerVars, appVars>>

SpecVAD == InitVAD /\ [][VadStep]_vars

----------------------------------------------------------------------------
(* The history on its own: any sequence of add_to_history calls *)

\* The cut of line 42 taken from the wrong end.
add_to_history_keeps_oldest(history, text) ==
    LET h == Append(history, text)
    IN  IF Len(h) > HistoryCap
        THEN SubSeq(h, 1, HistoryCap)
        ELSE h

\* add_to_history loses the text.
add_to_history_drops(history, text) == history

\* Analyzer.add_to_history
add_to_history(history, text) ==
    LET h == Append(history, text)
    IN  IF Len(h) > HistoryCap
        THEN SubSeq(h, Len(h) - HistoryCap + 1, Len(h))
        ELSE h

\* The texts recorded: a common one and a rare one.
CommonText == <<"x", "y", "z">>

RareText == <<"A", "b", "b">>

RECURSIVE CountOf(_, _)
CountOf(seq, x) ==
    IF seq = <<>> THEN 0
    ELSE (IF Head(seq) = x THEN 1 ELSE 0) + CountOf(Tail(seq), x)

InitHistory ==
    /\ silence_threshold = 0
    /\ buffer = <<>>
    /\ silence_samples = 0
    /\ consumed = <<>>
    /\ emitted = <<>>
    /\ AnalyzerIdle
    /\ AppIdle

\* A call of add_to_history.
RecordText ==
    /\ Len(recorded) < MaxRecords
    /\ \E text \in {CommonText, RareText} :
         /\ text = RareText => CountOf(recorded, RareText) < MaxRare
         /\ transcript_history' = add_to_history(transcript_history, text)
         /\ recorded' = Append(recorded, text)
    /\ UNCHANGED <<now, last_fired, kw_call, fired_log, vadVars, appVars>>

SpecHistory == InitHistory /\ [][RecordText]_vars

----------------------------------------------------------------------------
(* The application: capture thread, pipeline worker, key handlers *)

\* str.strip() for blanks.
RECURSIVE Strip(_)
Strip(t) ==
    IF t = <<>> THEN t
    ELSE IF Head(t) = " " THEN Strip(Tail(t))
    ELSE IF t[Len(t)] = " " THEN Strip(SubSeq(t, 1, Len(t) - 1))
    ELSE t

\* The length test of line 127 without the strip.
IsNoiseUntrimmed(text) == text = <<>> \/ Len(text) < 3

\* not text or len(text.strip()) < 3   (app.py line 127)
IsNoise(text) == text = <<>> \/ Len(Strip(text)) < 3

\* The test of _audio_callback (line 38): TRUE when the chunk is skipped.
GateIgnored(flag) == FALSE

GateClosed(flag) == flag

Playing(p) == pc[p] = "playing"

\* The finally clause of speak (speaker.py lines 53-54, 133-134): the value
\* of the speaking event after it.
FinallyLeavesSet(flag) == flag

FinallyClear(flag) == FALSE

\* Where a task goes when its response cycle is over: the pipeline back to
\* its async for, the key handler to its end.
Rest(p) == IF p = "pipeline" THEN "listening" ELSE "idle"

\* The task's TriggerMatch goes out of use with its response cycle.
Forget(p) == [result EXCEPT ![p] = NoResult]

\* on_mount -> _run_pipeline up to the async for (lines 90-118): the
\* components are built and the capture stream is opened, or opening fails
\* and the worker returns.
StartPipeline ==
    /\ pc["pipeline"] = "start"
    /\ \E opened \in BOOLEAN :
         /\ stream' = opened
         /\ pc' = [pc EXCEPT !["pipeline"] = IF opened THEN "listening" ELSE "done"]
    /\ UNCHANGED <<vadVars, analyzerVars, engine, paused_event, speaking,
                   triggers_enabled, queue, cb, next_id, utterance,
                   result, heard>>

\* _audio_callback, line 38, on the driver's thread: the driver hands over a
\* chunk; it is skipped when the speaking event is set.
AudioCallbackTest ==
    /\ stream
    /\ cb = <<>>
    /\ next_id <= MaxChunks
    /\ \E k \in MainChunkKinds :
         LET chunk == [id |-> next_id, samples |-> k, gated |-> speaking]
         IN  cb' = IF GateClosed(speaking) THEN cb ELSE <<chunk>>
    /\ next_id' = next_id + 1
    /\ UNCHANGED <<vadVars, analyzerVars, pc, engine, paused_event, speaking,
                   triggers_enabled, stream, queue, utterance, result, heard>>

\* _audio_callback, line 40: the chunk is put on the queue.
AudioCallbackPut ==
    /\ cb # <<>>
    /\ queue' = Append(queue, cb[1])
    /\ cb' = <<>>
    /\ UNCHANGED <<vadVars, analyzerVars, pc, engine, paused_event, speaking,
                   triggers_enabled, stream, next_id, utterance,
                   result, heard>>

\* The segmenter also runs while the worker waits at line 123.
PullingOrHeld(state) == state \in {"listening", "pause_blocked"}

\* utterances() is an async generator: its body runs only while the async
\* for of line 121 awaits the next utterance, and is suspended at the yield
\* (audio.py line 89) for the whole loop body of the worker.
Pulling(state) == state = "listening"

\* One turn of the while loop of utterances() for the pipeline's async for
\* (audio.py lines 70-89).  A yielded utterance reaches line 123 of app.py
\* in the same event-loop step: with _paused set, wait() returns at once
\* and the transcription is started (line 126); with _paused clear the
\* worker is left waiting on the event.
SegmenterStep ==
    /\ Pulling(pc["pipeline"])
    /\ queue # <<>>
    /\ LET r == Accept(buffer, silence_samples, silence_threshold, Head(queue))
       IN  /\ buffer' = r.buffer
           /\ silence_samples' = r.silence_samples
           /\ IF r.out = <<>>
              THEN UNCHANGED <<pc, utterance>>
              ELSE /\ utterance' = r.out[1]
                   /\ pc' = [pc EXCEPT !["pipeline"] =
                                IF paused_event THEN "transcribing" ELSE "pause_blocked"]
    /\ queue' = Tail(queue)
    /\ UNCHANGED <<silence_threshold, consumed, emitted, analyzerVars, engine,
                   paused_event, speaking, triggers_enabled, stream, cb, next_id, result, heard>>

\* The worker, woken by _paused.set(), resumes after line 123 and starts the
\* transcription (line 126).
PausedWakeup ==
    /\ pc["pipeline"] = "pause_woken"
    /\ pc' = [pc EXCEPT !["pipeline"] = "transcribing"]
    /\ UNCHANGED <<vadVars, analyzerVars, engine, paused_event, speaking,
                   triggers_enabled, stream, queue, cb, next_id,
                   utterance, result, heard>>

\* The matcher is consulted whatever the flag says.
MatchingAlwaysOn(flag) == TRUE

\* if self._triggers_enabled:   (app.py line 134)
MatchingOn(flag) == flag

\* transcribe() returns a text: lines 127-157 up to the next await.
TranscribeReturn ==
    /\ pc["pipeline"] = "transcribing"
    /\ \E text \in MainTexts :
         IF IsNoise(text)
         THEN /\ pc' = [pc EXCEPT !["pipeline"] = "listening"]
              /\ heard' = <<[text |-> text, checked |-> FALSE]>>
              /\ UNCHANGED <<last_fired, transcript_history, result>>
         ELSE IF MatchingOn(triggers_enabled)
         THEN LET r == check_keywords(text, now, last_fired)
              IN  /\ last_fired' = r.last_fired
                  /\ heard' = <<[text |-> text, checked |-> TRUE]>>
                  /\ transcript_history' = add_to_history(transcript_history, text)
                  /\ IF r.match # NoMatch
                     THEN /\ result' = [result EXCEPT !["pipeline"] =
                                 [trigger |-> r.match[1].trigger,
                                  matched_keyword |-> r.match[1].keyword,
                                  detected_at |-> now,
                                  response |-> "pending"]]
                          /\ pc' = [pc EXCEPT !["pipeline"] = "generating"]
                     ELSE /\ result' = [result EXCEPT !["pipeline"] = NoResult]
                          /\ pc' = [pc EXCEPT !["pipeline"] = "listening"]
         ELSE /\ transcript_history' = add_to_history(transcript_history, text)
              /\ heard' = <<[text |-> text, checked |-> FALSE]>>
              /\ result' = [result EXCEPT !["pipeline"] = NoResult]
              /\ pc' = [pc EXCEPT !["pipeline"] = "listening"]
              /\ UNCHANGED last_fired
    /\ utterance' = <<>>
    /\ UNCHANGED <<vadVars, now, kw_call, fired_log, recorded, engine, paused_event,
                   speaking, triggers_enabled, stream, queue, cb, next_id>>

\* An exception leaves the async for of _run_pipeline: the finally clause
\* stops the capture (lines 158-159) and the worker ends.
WorkerDies == [pc EXCEPT !["pipeline"] = "done"]

\* transcribe() raises.
TranscribeRaises ==
    /\ pc["pipeline"] = "transcribing"
    /\ pc' = WorkerDies
    /\ stream' = FALSE
    /\ utterance' = <<>>
    /\ UNCHANGED <<vadVars, analyzerVars, engine, paused_event, speaking,
                   triggers_enabled, queue, cb, next_id, result, heard>>

\* The error text gets no speak call: the response cycle ends with it.
SpeakUnlessError(p, outcome) ==
    IF outcome = "error_text" THEN Rest(p)
    ELSE IF engine = "say" THEN "playing" ELSE "synthesizing"

\* _handle_trigger_result, line 194: where the task is once speak was called
\* with the response text, whatever the text says.  SaySpeaker sets the
\* event and awaits the say processes, KokoroSpeaker awaits the synthesis.
SpeakBegins(p, outcome) ==
    IF engine = "say" THEN "playing" ELSE "synthesizing"

\* generate_response returns (the reply, or the "[Claude error: ...]" text
\* after a non-zero exit); _handle_trigger_result calls speak, which for the
\* say engine sets the speaking event and starts the say processes, and for
\* kokoro starts the synthesis.
GenerateReturns(p) ==
    /\ pc[p] = "generating"
    /\ \E outcome \in {"reply", "error_text"} :
         /\ result' = [result EXCEPT ![p].response = outcome]
         /\ pc' = [pc EXCEPT ![p] = SpeakBegins(p, outcome)]
         /\ speaking' = (speaking \/ SpeakBegins(p, outcome) = "playing")
    /\ UNCHANGED <<vadVars, analyzerVars, engine, paused_event, triggers_enabled,
                   stream, queue, cb, next_id, utterance, heard>>

\* KokoroSpeaker.speak, lines 123-127: the synthesis returns audio and the
\* playback begins with the speaking event set.
SynthesisReturnsAudio(p) ==
    /\ pc[p] = "synthesizing"
    /\ speaking' = TRUE
    /\ pc' = [pc EXCEPT ![p] = "playing"]
    /\ UNCHANGED <<vadVars, analyzerVars, engine, paused_event, triggers_enabled,
                   stream, queue, cb, next_id, utterance, result, heard>>

\* KokoroSpeaker.speak, lines 124-125: no audio, speak returns.
SynthesisReturnsNothing(p) ==
    /\ pc[p] = "synthesizing"
    /\ pc' = [pc EXCEPT ![p] = Rest(p)]
    /\ result' = Forget(p)
    /\ UNCHANGED <<vadVars, analyzerVars, engine, paused_event, speaking,
                   triggers_enabled, stream, queue, cb, next_id,
                   utterance, heard>>

\* KokoroSpeaker.speak, line 123: the synthesis raises, before the event is
\* set.
SynthesisRaises(p) ==
    /\ pc[p] = "synthesizing"
    /\ IF p = "pipeline"
       THEN pc' = WorkerDies /\ stream' = FALSE
       ELSE pc' = [pc EXCEPT ![p] = Rest(p)] /\ stream' = stream
    /\ result' = Forget(p)
    /\ UNCHANGED <<vadVars, analyzerVars, engine, paused_event, speaking,
                   triggers_enabled, queue, cb, next_id, utterance, heard>>

\* The playback ends and the finally clause clears the speaking event
\* (SaySpeaker.speak lines 48-54, KokoroSpeaker.speak lines 128-134).
PlaybackEnds(p) ==
    /\ pc[p] = "playing"
    /\ speaking' = FinallyClear(speaking)
    /\ pc' = [pc EXCEPT ![p] = Rest(p)]
    /\ result' = Forget(p)
    /\ UNCHANGED <<vadVars, analyzerVars, engine, paused_event, triggers_enabled,
                   stream, queue, cb, next_id, utterance, heard>>

\* The playback raises; the finally clause clears the speaking event and the
\* exception goes on to the caller.
PlaybackRaises(p) ==
    /\ pc[p] = "playing"
    /\ speaking' = FinallyClear(speaking)
    /\ IF p = "pipeline"
       THEN pc' = WorkerDies /\ stream' = FALSE
       ELSE pc' = [pc EXCEPT ![p] = Rest(p)] /\ stream' = stream
    /\ result' = Forget(p)
    /\ UNCHANGED <<vadVars, analyzerVars, engine, paused_event, triggers_enabled,
                   queue, cb, next_id, utterance, heard>>

\* The worker sleeps through _paused.set().
SetWakesNobody(state, was_set) == state

\* Where the worker is after action_toggle_pause found the event in state
\* was_set: _paused.set() (line 201) wakes a worker waiting at line 123,
\* _paused.clear() (line 199) touches no waiter.
SetWakes(state, was_set) ==
    IF ~was_set /\ state = "pause_blocked" THEN "pause_woken" ELSE state

\* action_toggle_pause
action_toggle_pause ==
    /\ paused_event' = ~paused_event
    /\ pc' = [pc EXCEPT !["pipeline"] = SetWakes(@, paused_event)]
    /\ UNCHANGED <<vadVars, analyzerVars, engine, speaking, triggers_enabled,
                   stream, queue, cb, next_id, utterance, result, heard>>

\* action_toggle_triggers
action_toggle_triggers ==
    /\ triggers_enabled' = ~triggers_enabled
    /\ UNCHANGED <<vadVars, analyzerVars, pc, engine, paused_event, speaking,
                   stream, queue, cb, next_id, utterance, result, heard>>

\* on_key with the digit of a configured trigger, once _analyzer exists:
\* force_trigger up to its call of generate_response.
on_key ==
    /\ pc["force"] = "idle"
    /\ pc["pipeline"] # "start"
    /\ \E i \in TriggerIds :
         LET r == force_trigger(i, transcript_history, now, last_fired)
         IN  /\ last_fired' = r.last_fired
             /\ result' = [result EXCEPT !["force"] =
                              [trigger |-> r.trigger,
                               matched_keyword |-> r.matched_keyword,
                               detected_at |-> 0,
                               response |-> "pending"]]
    /\ pc' = [pc EXCEPT !["force"] = "generating"]
    /\ UNCHANGED <<vadVars, now, transcript_history, kw_call, fired_log, recorded,
                   engine,
                   paused_event, speaking, triggers_enabled, stream, queue, cb,
                   next_id, utterance, heard>>

\* The monotonic clock advances.  It is read only by check_keywords, when
\* transcribe() has returned, so the time that passes is taken while the
\* worker awaits a collaborator: the transcriber, claude or the speaker.
ClockTick ==
    /\ now < MaxClock
    /\ pc["pipeline"] \in {"transcribing", "generating", "synthesizing", "playing"}
    /\ now' = now + 1
    /\ UNCHANGED <<last_fired, transcript_history, kw_call, fired_log, recorded,
                   vadVars, appVars>>

Init ==
    /\ silence_threshold = SilenceThresholdOf(MainVadConfig)
    /\ buffer = <<>>
    /\ silence_samples = 0
    /\ consumed = <<>>
    /\ emitted = <<>>
    /\ now = 0
    /\ last_fired = <<>>
    /\ transcript_history = <<>>
    /\ kw_call = NoCall
    /\ fired_log = [i \in TriggerIds |-> <<>>]
    /\ recorded = <<>>
    /\ pc = [p \in Procs |-> IF p = "pipeline" THEN "start" ELSE "idle"]
    /\ engine \in {"say", "kokoro"}
    /\ paused_event = TRUE
    /\ speaking = FALSE
    /\ triggers_enabled = FALSE
    /\ stream = FALSE
    /\ queue = <<>>
    /\ cb = <<>>
    /\ next_id = 1
    /\ utterance = <<>>
    /\ result = [p \in Procs |-> NoResult]
    /\ heard = NotHeard

Next ==
    \/ StartPipeline
    \/ AudioCallbackTest
    \/ AudioCallbackPut
    \/ SegmenterStep
    \/ PausedWakeup
    \/ TranscribeReturn
    \/ TranscribeRaises
    \/ \E p \in Procs : GenerateReturns(p)
    \/ \E p \in Procs : SynthesisReturnsAudio(p)
    \/ \E p \in Procs : SynthesisReturnsNothing(p)
    \/ \E p \in Procs : SynthesisRaises(p)
    \/ \E p \in Procs : PlaybackEnds(p)
    \/ \E p \in Procs : PlaybackRaises(p)
    \/ action_toggle_pause
    \/ action_toggle_triggers
    \/ on_key
    \/ ClockTick

Spec == Init /\ [][Next]_vars

\* The worker, the capture thread, the two toggles and the clock, without
\* the digit keys: on_key shares with the worker only the speaking event
\* and the analyzer, and the worker waits for neither.
NextWorker ==
    \/ StartPipeline
    \/ AudioCallbackTest
    \/ AudioCallbackPut
    \/ SegmenterStep
    \/ PausedWakeup
    \/ TranscribeReturn
    \/ TranscribeRaises
    \/ GenerateReturns("pipeline")
    \/ SynthesisReturnsAudio("pipeline")
    \/ SynthesisReturnsNothing("pipeline")
    \/ SynthesisRaises("pipeline")
    \/ PlaybackEnds("pipeline")
    \/ PlaybackRaises("pipeline")
    \/ action_toggle_pause
    \/ action_toggle_triggers
    \/ ClockTick

\* The worker's side of the event loop keeps running and the calls it
\* awaits end: the capture callback completes its put, the segmenter takes
\* what is on the queue, a woken worker resumes, and transcribe,
\* generate_response and speak return or raise.
Fairness ==
    /\ WF_vars(AudioCallbackPut)
    /\ WF_vars(SegmenterStep)
    /\ WF_vars(PausedWakeup)
    /\ WF_vars(TranscribeReturn \/ TranscribeRaises)
    /\ WF_vars(GenerateReturns("pipeline"))
    /\ WF_vars(SynthesisReturnsAudio("pipeline") \/ SynthesisReturnsNothing("pipeline")
                 \/ SynthesisRaises("pipeline"))
    /\ WF_vars(PlaybackEnds("pipeline") \/ PlaybackRaises("pipeline"))

SpecLive == Init /\ [][NextWorker]_vars /\ Fairness

----------------------------------------------------------------------------
(* What the chunk sequence alone says about emissions *)

Loud(i) == EnergyAtLeast(consumed[i].samples, EnergyThreshold)

\* Samples in chunks j..k of the consumed sequence.
RECURSIVE Cum(_, _)
Cum(j, k) == IF j > k THEN 0 ELSE Len(consumed[k].samples) + Cum(j, k - 1)

\* First index of the maximal run of quiet chunks that ends at k (k quiet).
QuietRunStart(k) ==
    CHOOSE j \in 1..k :
        /\ \A i \in j..k : ~Loud(i)
        /\ (j = 1 \/ Loud(j - 1))

\* First index of the maximal run of loud chunks that ends at k (k loud).
LoudRunStart(k) ==
    CHOOSE j \in 1..k :
        /\ \A i \in j..k : Loud(i)
        /\ (j = 1 \/ ~Loud(j - 1))

\* Chunk k completes a quiet run that directly follows a loud run and whose
\* samples reach the silence threshold with chunk k, not before it.
EmitsAt(k) ==
    /\ ~Loud(k)
    /\ LET j == QuietRunStart(k)
       IN  /\ j > 1
           /\ Cum(j, k) >= silence_threshold
           /\ (k = j \/ Cum(j, k - 1) < silence_threshold)

\* Chunk k ends a quiet run that directly follows a loud run and whose
\* samples reach the silence threshold.
QuietRunLongEnough(k) ==
    /\ ~Loud(k)
    /\ LET j == QuietRunStart(k)
       IN  j > 1 /\ Cum(j, k) >= silence_threshold

\* Position of the last emission before k, 0 when there is none.
PrevEmit(k) ==
    LET before == { i \in 1..(k - 1) : EmitsAt(i) }
    IN  IF before = {} THEN 0 ELSE CHOOSE i \in before : \A h \in before : h <= i

\* First loud chunk after the last emission before k.
UtteranceStart(k) ==
    CHOOSE s \in (PrevEmit(k) + 1)..k :
        Loud(s) /\ \A i \in (PrevEmit(k) + 1)..(s - 1) : ~Loud(i)

EmittedAt == { emitted[n].at : n \in 1..Len(emitted) }

\* C1 (as stated): an utterance is emitted iff a contiguous loud run is
\* followed by a contiguous quiet run whose samples reach the silence
\* threshold, and the utterance is exactly that loud run followed by that
\* quiet run.
C1_AsStated ==
    /\ \A k \in 1..Len(consumed) : (k \in EmittedAt) <=> EmitsAt(k)
    /\ \A n \in 1..Len(emitted) :
         LET k == emitted[n].at
             j == QuietRunStart(k)
         IN  emitted[n].frames = SubSeq(consumed, LoudRunStart(j - 1), k)

\* C1 (amended): an utterance is emitted at chunk k iff k completes a quiet
\* run that directly follows a loud run and first reaches the silence
\* threshold at k; the utterance is every chunk from the first loud chunk
\* after the previous emission up to k, in arrival order: the last loud run
\* and the trailing quiet run, preceded by any earlier loud runs and the
\* shorter quiet gaps between them.
C1_Segmentation ==
    /\ \A k \in 1..Len(consumed) : (k \in EmittedAt) <=> EmitsAt(k)
    /\ \A n \in 1..Len(emitted) :
         LET k == emitted[n].at
         IN  emitted[n].frames = SubSeq(consumed, UtteranceStart(k), k)

\* An utterance was emitted that spans more than one loud run.
C1_Witness ==
    \E n \in 1..Len(emitted) :
        LET k == emitted[n].at
        IN  /\ EmitsAt(k)
            /\ UtteranceStart(k) < LoudRunStart(QuietRunStart(k) - 1)
            /\ emitted[n].frames = SubSeq(consumed, UtteranceStart(k), k)

\* The example of C2: five equal-size chunks of RMS 0.02, 0.02, 0.001, 0.001,
\* 0.001 and a silence threshold of the samples of two chunks.
C2_Example ==
    /\ [i \in 1..Len(consumed) |-> consumed[i].samples]
         = << <<20, 20>>, <<20, 20>>, <<1, 1>>, <<1, 1>>, <<1, 1>> >>
    /\ silence_threshold = 4

\* C2 (as stated): the example emits exactly one utterance, holding all five
\* chunks.
C2_AsStated ==
    C2_Example =>
        /\ Len(emitted) = 1
        /\ emitted[1].frames = consumed

\* C2 (amended): the example emits exactly one utterance, at the fourth
\* chunk; it holds the first four chunks, and the fifth chunk is discarded.
C2_FourFrames ==
    C2_Example =>
        /\ Len(emitted) = 1
        /\ emitted[1].at = 4
        /\ emitted[1].frames = SubSeq(consumed, 1, 4)
        /\ buffer = <<>>

C2_Witness ==
    C2_Example /\ Len(emitted) = 1

----------------------------------------------------------------------------
(* Claims about the analyzer *)

\* Some keyword of trigger i occurs in the text, case-insensitively.
HasKeyword(i, text) ==
    \E k \in 1..Len(Triggers[i].keywords) :
        Contains(Lower(text), Lower(Triggers[i].keywords[k]))

\* The latest call was check_keywords and returned trigger i.
Returned(i) ==
    kw_call.kind = "check" /\ kw_call.match # NoMatch /\ kw_call.match[1].trigger = i

\* The times trigger i was returned before the latest call.
EarlierMatches(i) ==
    IF Returned(i) THEN SubSeq(fired_log[i], 1, Len(fired_log[i]) - 1)
    ELSE fired_log[i]

\* C5: a trigger is never returned twice within its cooldown window: if it
\* was returned at t0, no call at t with t0 <= t < t0 + cooldown returns it,
\* whatever the texts and whatever force-invocations lie in between.
\* fired_log holds the latest two matches of each trigger; the clock never
\* goes back, so two matches inside one window would have two consecutive
\* matches inside one window between them.
C5_NoMatchInCooldown ==
    \A i \in TriggerIds :
        \A a, b \in 1..Len(fired_log[i]) :
            a < b =>
                ~(/\ fired_log[i][a] <= fired_log[i][b]
                  /\ fired_log[i][b] < fired_log[i][a] + Triggers[i].cooldown_seconds)

\* A check inside trigger 1's window, right after a force-invocation of it,
\* on a text with its keyword, did not return it.
C5_Witness ==
    /\ kw_call.kind = "check"
    /\ kw_call.prev_kind = "force"
    /\ kw_call.prev_trigger = 1
    /\ HasKeyword(1, kw_call.text)
    /\ fired_log[1] # <<>>
    /\ kw_call.time < fired_log[1][Len(fired_log[1])] + Triggers[1].cooldown_seconds
    /\ ~Returned(1)

\* C6 (as stated): once trigger i was returned at t0, a check at any
\* t >= t0 + cooldown on a text with one of its keywords returns it again.
C6_AsStated ==
    \A i \in TriggerIds :
        \A a \in 1..Len(EarlierMatches(i)) :
            ( /\ kw_call.kind = "check"
              /\ HasKeyword(i, kw_call.text)
              /\ kw_call.time >= EarlierMatches(i)[a] + Triggers[i].cooldown_seconds )
            => Returned(i)

\* C6 (amended): if trigger i was last returned at t0, a check at any
\* t >= t0 + cooldown on a text with one of its keywords returns a match,
\* and the match is i whenever no trigger configured before i has a keyword
\* in the text.
C6_MatchesAgainAfterCooldown ==
    \A i \in TriggerIds :
        LET earlier == EarlierMatches(i)
        IN  ( /\ kw_call.kind = "check"
              /\ HasKeyword(i, kw_call.text)
              /\ earlier # <<>>
              /\ kw_call.time >= earlier[Len(earlier)] + Triggers[i].cooldown_seconds )
            => /\ kw_call.match # NoMatch
               /\ (\A h \in 1..(i - 1) : ~HasKeyword(h, kw_call.text)) => Returned(i)

\* Trigger 2 was returned a second time, exactly when its cooldown ended.
C6_Witness ==
    /\ Returned(2)
    /\ Len(fired_log[2]) = 2
    /\ kw_call.time = fired_log[2][1] + Triggers[2].cooldown_seconds

\* C7: a trigger that never matched is not skipped by the cooldown test,
\* whatever the clock value: a check on a text with one of its keywords
\* returns it, or a trigger configured before it.
C7_NeverMatchedIsEligible ==
    \A i \in TriggerIds :
        ( /\ kw_call.kind = "check"
          /\ Triggers[i].name \notin DOMAIN kw_call.before
          /\ HasKeyword(i, kw_call.text) )
        => /\ kw_call.match # NoMatch
           /\ kw_call.match[1].trigger <= i

\* Off cooldown: never matched, or the cooldown has elapsed since the last
\* match.
OffCooldown(i, t, lf) ==
    \/ Triggers[i].name \notin DOMAIN lf
    \/ t - lf[Triggers[i].name] >= Triggers[i].cooldown_seconds

\* C8: check_keywords returns the first off-cooldown trigger, in configured
\* order, that has a keyword in the text, with the first such keyword of its
\* list; only that trigger's last_fired entry changes; it returns no match
\* exactly when no off-cooldown trigger has such a keyword.
C8_FirstMatchInOrder ==
    kw_call.kind = "check" =>
        LET hits == { i \in TriggerIds :
                        /\ OffCooldown(i, kw_call.time, kw_call.before)
                        /\ HasKeyword(i, kw_call.text) }
        IN  /\ (kw_call.match = NoMatch) <=> (hits = {})
            /\ kw_call.match = NoMatch => last_fired = kw_call.before
            /\ kw_call.match # NoMatch =>
                 LET i == kw_call.match[1].trigger
                     kws == Triggers[i].keywords
                 IN  /\ i \in hits
                     /\ \A h \in hits : i <= h
                     /\ \E k \in 1..Len(kws) :
                          /\ kw_call.match[1].keyword = kws[k]
                          /\ Contains(Lower(kw_call.text), Lower(kws[k]))
                          /\ \A j \in 1..(k - 1) :
                               ~Contains(Lower(kw_call.text), Lower(kws[j]))
                     /\ last_fired = Put(kw_call.before, Triggers[i].name, kw_call.time)

\* C10: force_trigger leaves last_fired as it was for every trigger, and a
\* check_keywords call right after it returns what it would have returned
\* without the force call.
C10_ForceLeavesCooldownState ==
    /\ kw_call.kind = "force" => last_fired = kw_call.before
    /\ (kw_call.kind = "check" /\ kw_call.prev_kind = "force") =>
         LET r == check_keywords(kw_call.text, kw_call.time, kw_call.prev_before)
         IN  /\ kw_call.match = r.match
             /\ last_fired = r.last_fired

\* Trigger 1 was force-invoked while off cooldown, and the check made right
\* after it, at the same clock value, returned trigger 1.
C10_Witness ==
    /\ kw_call.kind = "check"
    /\ kw_call.prev_kind = "force"
    /\ kw_call.prev_trigger = 1
    /\ Returned(1)
    /\ fired_log[1] = <<kw_call.time>>

----------------------------------------------------------------------------
(* Claims about the gate and the response cycle *)

\* Every chunk that got past the test of _audio_callback, wherever it is now.
ChunksInFlight ==
    { cb[n] : n \in 1..Len(cb) } \cup { queue[n] : n \in 1..Len(queue) }
    \cup { buffer[n] : n \in 1..Len(buffer) }
    \cup { utterance[n] : n \in 1..Len(utterance) }

\* C3: a chunk delivered to _audio_callback while the speaking event is set
\* is never enqueued, so it is in no queue, buffer or utterance afterwards,
\* under every interleaving of the capture thread, the worker, the key
\* handlers and the speaker.
C3_NoChunkFromSpeakingTime ==
    \A c \in ChunksInFlight : ~c.gated

\* An utterance was yielded whose chunk numbers have a hole: a chunk the
\* driver delivered between two of its chunks was skipped by the gate (the
\* segmenter never skips a chunk inside an utterance).
C3_Witness ==
    /\ utterance # <<>>
    /\ \E n \in 1..(Len(utterance) - 1) : utterance[n + 1].id > utterance[n].id + 1

\* C4: the speaking event is set whenever a playback is in progress, also
\* when a force-invoked response overlaps a response of the pipeline.
C4_SpeakingWhilePlaying ==
    (\E p \in Procs : Playing(p)) => speaking

Responding(p) == pc[p] \in {"generating", "synthesizing", "playing"}

\* C9: while the pipeline generates and speaks a response, last_fired of the
\* matched trigger is the time of the check_keywords call, no step of that
\* time (the completion of generation and of speaking included) changes
\* last_fired, and the trigger is past its cooldown test exactly from
\* detection time + cooldown_seconds on.
C9_CooldownStartsAtDetection ==
    [][ Responding("pipeline") =>
          /\ result["pipeline"] # NoResult
          /\ LET r == result["pipeline"]
                 T == Triggers[r.trigger]
             IN  /\ Get(last_fired, T.name, -1) = r.detected_at
                 /\ CooldownSkips(T, now, last_fired)
                      <=> now < r.detected_at + T.cooldown_seconds
          /\ last_fired' = last_fired ]_vars

\* The response to a match is still being played when the cooldown that
\* started at detection has already run out.
C9_Witness ==
    /\ pc["pipeline"] = "playing"
    /\ result["pipeline"] # NoResult
    /\ LET r == result["pipeline"]
           T == Triggers[r.trigger]
       IN  /\ now >= r.detected_at + T.cooldown_seconds
           /\ ~CooldownSkips(T, now, last_fired)

----------------------------------------------------------------------------
(* Claims about the history *)

\* The last n elements of a sequence (all of it when it is shorter).
LastOf(seq, n) ==
    IF Len(seq) <= n THEN seq ELSE SubSeq(seq, Len(seq) - n + 1, Len(seq))

\* C11: after any sequence of add_to_history calls the history holds at
\* most 20 entries and is the last min(n, 20) recorded texts in their
\* original order; after 25 texts it is exactly texts 6..25.
C11_HistoryIsLastTwenty ==
    /\ Len(transcript_history) <= 20
    /\ transcript_history = LastOf(recorded, 20)
    /\ Len(recorded) = 25 => transcript_history = SubSeq(recorded, 6, 25)

\* 25 texts were recorded, the rare one among the first five only, and the
\* history holds 20 texts without it.
C11_Witness ==
    /\ Len(recorded) = 25
    /\ recorded[5] = RareText
    /\ Len(transcript_history) = 20
    /\ \A n \in 1..20 : transcript_history[n] = CommonText

----------------------------------------------------------------------------
(* Claims about the response cycles and their failures *)

\* C12: at most one response cycle (generation or playback) is in progress
\* at any time, whether it was started by a match in the pipeline or by a
\* force-invocation.
C12_OneResponseInFlight ==
    ~(Responding("pipeline") /\ Responding("force"))

\* C13: a failure of transcribe() drops only the utterance at hand: every
\* step by which the worker leaves a transcription, a failure included,
\* leaves it in its loop (listening again, or generating for a match) with
\* the capture stream still open.
C13_TranscriptionFailureIsRecoverable ==
    [][ (pc["pipeline"] = "transcribing" /\ pc'["pipeline"] # "transcribing")
          => /\ pc'["pipeline"] \in {"listening", "generating"}
             /\ stream' ]_vars

\* C14: a failure of speak() is scoped to the response at hand: every step
\* by which the worker leaves a speak call, a failure of the synthesis or of
\* the playback included, takes it back to listening with the capture
\* stream still open.
C14_SpeakFailureKeepsLoop ==
    [][ ( /\ pc["pipeline"] \in {"synthesizing", "playing"}
          /\ pc'["pipeline"] \notin {"synthesizing", "playing"} )
          => /\ pc'["pipeline"] = "listening"
             /\ stream' ]_vars

\* C15: every speak call releases the gate on every exit path: when no
\* playback is in progress (each speak call has returned, has failed, or
\* has not set the event yet) the speaking event is clear.
C15_GateReleased ==
    (\A p \in Procs : ~Playing(p)) => ~speaking

\* With the say engine, the only utterance so far (two chunks delivered)
\* matched a trigger and the worker has ended: its speak call failed during
\* playback; no other speak call is in progress and the event is clear.
C15_Witness ==
    /\ engine = "say"
    /\ next_id = 3
    /\ last_fired # <<>>
    /\ pc["pipeline"] = "done"
    /\ pc["force"] = "idle"
    /\ ~speaking

Speaking(p) == pc[p] \in {"synthesizing", "playing"}

\* C16: a failed generation is not an error outcome: generate_response
\* returns a text (the reply or the error text), every step that ends a
\* generation starts a speak call with it, and a task that holds the error
\* text is inside that speak call until the call ends, after which it is
\* where any response cycle ends (the worker listening again, or ended if
\* the speak call failed).
C16_ErrorTextIsSpoken ==
    [][ \A p \in Procs :
          /\ (pc[p] = "generating" /\ pc'[p] # "generating")
                => /\ result'[p].response \in {"reply", "error_text"}
                   /\ Speaking(p)'
          /\ (result[p] # NoResult /\ result[p].response = "error_text")
                => /\ Speaking(p)
                   /\ (Speaking(p)' \/ pc'[p] = Rest(p)
                          \/ (p = "pipeline" /\ pc'[p] = "done")) ]_vars

\* The pipeline plays the error text of a failed generation.
C16_Witness ==
    /\ pc["pipeline"] = "playing"
    /\ result["pipeline"] # NoResult
    /\ result["pipeline"].response = "error_text"

----------------------------------------------------------------------------
(* Claims about pausing *)

\* queue2 is queue, or queue with one more chunk at its end.
GrownFrom(queue2, queue1) ==
    \/ queue2 = queue1
    \/ Len(queue2) = Len(queue1) + 1 /\ SubSeq(queue2, 1, Len(queue1)) = queue1

\* C17 (as stated): while the worker is held by the pause the segmenter
\* keeps consuming: whenever a chunk is on the queue, the segmenter can
\* take it.
C17_AsStated ==
    (pc["pipeline"] = "pause_blocked" /\ queue # <<>>) => ENABLED SegmenterStep

\* C17 (amended): the segmenter runs only while the worker waits for the
\* next utterance.  A worker held by the pause holds exactly one completed
\* utterance, yielded while paused, and the segmenter's buffer and counter
\* are empty; whenever the worker is not waiting for the next utterance
\* (held by the pause in particular) the segmenter takes no chunk and
\* completes no utterance, and the queue only grows at its end by what the
\* capture callback puts.
C17_SegmenterWaitsWithWorker ==
    [][ /\ pc["pipeline"] = "pause_blocked"
            => /\ ~paused_event
               /\ utterance # <<>>
               /\ buffer = <<>> /\ silence_samples = 0
               /\ utterance' = utterance
        /\ pc["pipeline"] # "listening"
            => /\ buffer' = buffer
               /\ silence_samples' = silence_samples
               /\ GrownFrom(queue', queue) ]_vars

\* The worker is held by the pause with one utterance, and behind it the
\* chunks of a second utterance (a loud chunk, then a quiet one that reaches
\* the silence threshold) were captured and lie on the queue, not segmented.
C17_Witness ==
    /\ pc["pipeline"] = "pause_blocked"
    /\ ~paused_event
    /\ Len(queue) = 2
    /\ EnergyAtLeast(queue[1].samples, EnergyThreshold)
    /\ ~EnergyAtLeast(queue[2].samples, EnergyThreshold)
    /\ Len(queue[2].samples) >= silence_threshold

\* The chunks past the gate in the order they move through the worker.
Pipeline == utterance \o buffer \o queue \o cb

\* The worker never ends: no collaborator call raises.
CallsReturn == [](pc["pipeline"] # "done")

\* The pause is lifted again and again (in particular: lifted for good).
PauseLifted == []<>paused_event

\* Chunks keep their arrival order from the callback to the utterance.
InArrivalOrder ==
    \A m, n \in 1..Len(Pipeline) : m < n => Pipeline[m].id < Pipeline[n].id

\* The chunks that leave in a step are the utterance whose transcription
\* ends, or a quiet chunk the segmenter takes with an empty buffer.
LeaveOnlyWhenDone ==
    LET gone == ChunksInFlight \ ChunksInFlight'
    IN  (gone # {}) =>
          \/ /\ pc["pipeline"] = "transcribing"
             /\ gone = { utterance[n] : n \in 1..Len(utterance) }
          \/ /\ pc["pipeline"] = "listening"
             /\ buffer = <<>>
             /\ gone = {Head(queue)}
             /\ ~EnergyAtLeast(Head(queue).samples, EnergyThreshold)

\* An utterance held by the pause is kept as it is.
HeldUtteranceKept ==
    (pc["pipeline"] \in {"pause_blocked", "pause_woken"})
        => (utterance # <<>> /\ utterance' = utterance)

\* C18: no audio is lost or reordered by a pause.  Chunks keep their
\* arrival order from the callback to the utterance; a chunk leaves only as
\* part of the utterance whose transcription ends, or as a quiet chunk the
\* segmenter takes with an empty buffer; an utterance held by the pause is
\* kept as it is; and if the pause is lifted and the collaborator calls
\* return, the queue is empty again and again or the segmenter takes its
\* head again and again (so every chunk put on the queue is taken, in
\* order) and every utterance held by the pause is transcribed.
C18_NothingLostByPause ==
    /\ [][InArrivalOrder /\ LeaveOnlyWhenDone /\ HeldUtteranceKept]_vars
    /\ (CallsReturn /\ PauseLifted) =>
          /\ ([]<>(queue = <<>>) \/ []<><<SegmenterStep>>_vars)
          /\ (pc["pipeline"] = "pause_blocked") ~> (pc["pipeline"] = "transcribing")

\* The pause was lifted on a worker that holds an utterance, and the chunks
\* of another utterance, captured meanwhile, wait on the queue.
C18_Witness ==
    /\ pc["pipeline"] = "pause_woken"
    /\ Len(queue) = 2
    /\ EnergyAtLeast(queue[1].samples, EnergyThreshold)
    /\ ~EnergyAtLeast(queue[2].samples, EnergyThreshold)

----------------------------------------------------------------------------
(* Claims about what happens to a transcription result *)

\* The step is the return of transcribe() with the text now in heard.
TranscribeReturned ==
    /\ pc["pipeline"] = "transcribing"
    /\ pc'["pipeline"] \notin {"transcribing", "done"}

\* C19: a transcription result of at least 3 characters after trimming is
\* appended to the history exactly once: the step that returns it appends
\* it (with the cut to the last 20), whether automatic matching is enabled
\* or not and whether a trigger matched or not, and no other step changes
\* the history.
C19_RecordedOnce ==
    [][ /\ (TranscribeReturned /\ Len(Strip(heard'[1].text)) >= 3)
              => transcript_history' = LastOf(Append(transcript_history, heard'[1].text), 20)
        /\ ~TranscribeReturned => transcript_history' = transcript_history ]_vars

\* With matching enabled, a result matched a trigger, the worker is about
\* to generate the response, and the result is the one entry of the history.
C19_Witness ==
    /\ pc["pipeline"] = "generating"
    /\ heard # NotHeard
    /\ heard[1].checked
    /\ transcript_history = <<heard[1].text>>

\* C20: a transcription result that is empty or shorter than 3 characters
\* after trimming is discarded: the step that returns it leaves the history
\* and last_fired as they were, does not call check_keywords, starts no
\* response and no playback, and takes the worker back to listening.
C20_NoiseDiscarded ==
    [][ (TranscribeReturned /\ Len(Strip(heard'[1].text)) < 3)
          => /\ transcript_history' = transcript_history
             /\ last_fired' = last_fired
             /\ ~heard'[1].checked
             /\ result' = result
             /\ speaking' = speaking
             /\ pc'["pipeline"] = "listening" ]_vars

\* With matching enabled, the only utterance so far was transcribed to a
\* text of four characters, two of them after trimming, with a keyword of
\* both triggers in it; the worker listens again and nothing was recorded.
C20_Witness ==
    /\ next_id = 3
    /\ triggers_enabled
    /\ heard = <<[text |-> <<" ", "a", "b", " ">>, checked |-> FALSE]>>
    /\ pc["pipeline"] = "listening"
    /\ transcript_history = <<>>
    /\ last_fired = <<>>

----------------------------------------------------------------------------
(* Claims about the two toggles *)

\* C21: the worker never starts a transcription while the pipeline is
\* paused: in every step that takes it into transcribe(), the event _paused
\* is set, however action_toggle_pause interleaves with the worker.
C21_NeverTranscribesWhilePaused ==
    [][ (pc["pipeline"] # "transcribing" /\ pc'["pipeline"] = "transcribing")
          => paused_event ]_vars

----------------------------------------------------------------------------
(* Claims about the segmenter's state between utterances *)

\* The numbers of the chunks in an emitted utterance.
FrameIds(n) == { emitted[n].frames[k].id : k \in 1..Len(emitted[n].frames) }

\* C22: right after an emission the accumulation buffer is empty and the
\* trailing-silence counter is zero; no chunk is part of two emitted
\* utterances; and every emitted utterance starts with a chunk of
\* RMS >= threshold.
C22_CleanAfterEmission ==
    /\ (Len(consumed) \in EmittedAt) => (buffer = <<>> /\ silence_samples = 0)
    /\ \A m, n \in 1..Len(emitted) : m # n => FrameIds(m) \cap FrameIds(n) = {}
    /\ \A n \in 1..Len(emitted) :
         EnergyAtLeast(emitted[n].frames[1].samples, EnergyThreshold)

\* After leading silence, a second utterance was emitted with the chunk
\* just taken.
C22_Witness ==
    /\ Len(emitted) = 2
    /\ emitted[2].at = Len(consumed)
    /\ ~Loud(1)
    /\ buffer = <<>>
    /\ silence_samples = 0

\* C23: with automatic matching disabled when the text comes back from
\* transcribe(), the step that processes it does not call check_keywords,
\* leaves last_fired as it was, starts no response and no playback and
\* takes the worker back to listening, whatever the text and the clock;
\* the worker enters a response generation only with matching enabled, so
\* with it disabled a response comes from a force-invocation only.
C23_DisabledMeansNoMatching ==
    [][ /\ (TranscribeReturned /\ ~triggers_enabled)
              => /\ ~heard'[1].checked
                 /\ last_fired' = last_fired
                 /\ result'["pipeline"] = NoResult
                 /\ speaking' = speaking
                 /\ pc'["pipeline"] = "listening"
        /\ (~Responding("pipeline") /\ Responding("pipeline")')
              => triggers_enabled ]_vars

\* With matching disabled, a text with a keyword of the first trigger came
\* back when the clock was past that trigger's cooldown and the trigger had
\* never matched; it was recorded, check_keywords was not called, and the
\* worker listens again.
C23_Witness ==
    /\ ~triggers_enabled
    /\ heard = <<[text |-> <<"A", "b", "b">>, checked |-> FALSE]>>
    /\ now >= Triggers[1].cooldown_seconds
    /\ last_fired = <<>>
    /\ transcript_history = <<heard[1].text>>
    /\ pc["pipeline"] = "listening"
    /\ check_keywords(heard[1].text, now, last_fired).match # NoMatch

====
